---- MODULE Spec2Model ----
(***************************************************************************)
(* dbt-depthy: the depth table of DbtManifestParser.                       *)
(*                                                                         *)
(* The repository holds two versions of DbtManifestParser: the one next to *)
(* extension.ts (src/src/manifestParser.ts, a per-node breadth-first       *)
(* search over the parents) and src/unnamed/part_002 (a topological        *)
(* propagation over the children).  The variable parser says which of the  *)
(* two the build contains; everything else is shared.                      *)
(*                                                                         *)
(* Strings that are keys of the table (ids and names) are modelled as the  *)
(* sequence of their '.'-separated segments: "model.p.a" is                *)
(* <<"model", "p", "a">>.  Segments are non-empty and contain no '.'.      *)
(***************************************************************************)
EXTENDS Integers, Sequences, FiniteSets, TLC

VARIABLES parser, fileKind, fileContent, manifest, modelDepths, refreshStatus,
          reported, fired, listenerSaw, repeated, lookup,
          loop, pending, lastIndex, decorated, document, hover, lastRead

vars == <<parser, fileKind, fileContent, manifest, modelDepths, refreshStatus,
          reported, fired, listenerSaw, repeated, lookup,
          loop, pending, lastIndex, decorated, document, hover, lastRead>>

(***************************************************************************)
(* Bounds of the input space.                                              *)
(***************************************************************************)
MaxNodes == 3
MaxParents == 2
MaxEdges == 3
LookupMaxEdges == 1
RefreshMaxNodes == 1
LoopMaxEdges == 2
MaxDocLen == 3
MaxPending == 2

(***************************************************************************)
(* Input space: node records and parent ids of manifest.json.              *)
(***************************************************************************)
NodePool ==
  { [id |-> <<"model", "p", "a">>, name |-> <<"u">>, resource_type |-> "model"],
    [id |-> <<"model", "q", "a">>, name |-> <<"u">>, resource_type |-> "model"],
    [id |-> <<"model", "p", "b">>, name |-> <<"a">>, resource_type |-> "model"],
    [id |-> <<"test", "p", "t">>, name |-> <<"u">>, resource_type |-> "test"] }

\* ids a parent list may name: a model id that is not a model of nodes is a
\* parent that startsWith('model.') retains although it is no participant
ParentIdPool ==
  { <<"model", "p", "a">>, <<"model", "q", "a">>, <<"test", "p", "t">> }

\* the nodes of the manifests that replace one another on disk
RefreshNodePool ==
  { [id |-> <<"model", "p", "a">>, name |-> <<"u">>, resource_type |-> "model"],
    [id |-> <<"model", "p", "b">>, name |-> <<"a">>, resource_type |-> "model"] }

\* the parent lists of those manifests: none, or 'model.p.a'
RefreshParentLists == { <<>>, << <<"model", "p", "a">> >> }

\* what findManifestFile and readFileSync meet on disk: no manifest.json
\* ("absent"), one that cannot be read ("unreadable"), one whose content is
\* not JSON ("malformed"), one whose content parses ("json")
FileKinds == { "absent", "unreadable", "malformed", "json" }

LookupNames ==
  { <<"a">>, <<"u">>, <<"p", "a">>, <<"model", "q", "a">>, <<"zz">> }

\* the pieces of a document: {{ ref('a') }}, {{ ref('zz') }} and other text
DocPieces == { <<"ref", <<"a">> >>, <<"ref", <<"zz">> >>, <<"sql">> }

DocTexts == UNION { [1..n -> DocPieces] : n \in 0..MaxDocLen }

\* the document of the visible editor
Documents ==
  { [isSqlFile |-> q, inModels |-> d, text |-> t] :
      q \in BOOLEAN, d \in BOOLEAN, t \in DocTexts }

Range(s) == { s[i] : i \in 1..Len(s) }

Max(a, b) == IF a >= b THEN a ELSE b

\* this.manifest is <<>> for null and <<m>> for a loaded manifest m
null == <<>>

\* undefined: the result of Map.get on an absent key and of a lookup miss
undefined == 0 - 1

(***************************************************************************)
(* DbtManifest values.  nodes is the sequence of the node records in       *)
(* Object.entries order; parent_map maps the id of every model of nodes to *)
(* its parent list, where the empty list also stands for an absent entry   *)
(* (the code reads parent_map[id] || []).  Entries of other nodes are      *)
(* never read and are left out.  has_parent_map is FALSE for a JSON value  *)
(* without a parent_map member, has_nodes is FALSE for one without a nodes *)
(* member.                                                                 *)
(***************************************************************************)
\* mutant of IsModel: the resource_type test dropped
IsModelAnyType(n) == n.resource_type \in {"model", "test"}

IsModel(n) == n.resource_type = "model"

\* models: { name, id } of every node with resource_type 'model', in order
modelsOf(nodes) == SelectSeq(nodes, IsModel)

ModelIdsOf(nodes) == { n.id : n \in Range(modelsOf(nodes)) }

RECURSIVE NodeSeqs(_)
NodeSeqs(k) ==
  IF k = 0 THEN { <<>> }
  ELSE LET shorter == NodeSeqs(k - 1)
       IN  shorter \cup
           { Append(s, n) : s \in { t \in shorter : Len(t) = k - 1 },
                            n \in NodePool }

DistinctIds(s) == \A i, j \in 1..Len(s) : s[i].id = s[j].id => i = j

ParentLists(len) == UNION { [1..l -> ParentIdPool] : l \in 0..len }

RECURSIVE ParentMaps(_, _)
ParentMaps(ids, budget) ==
  IF ids = {} THEN { <<>> }
  ELSE LET id == CHOOSE x \in ids : TRUE
       IN  UNION { { (id :> ps) @@ rest : rest \in ParentMaps(ids \ {id}, budget - Len(ps)) } :
                   ps \in ParentLists(IF budget < MaxParents THEN budget ELSE MaxParents) }

NodeSeqSet == { s \in NodeSeqs(MaxNodes) : DistinctIds(s) }

\* the parsed content of a manifest.json with nodes ns and at most budget
\* parent entries in all
IsManifest(m, ns, budget) ==
  \/ \E pm \in ParentMaps(ModelIdsOf(ns), budget) :
        m = [nodes |-> ns, parent_map |-> pm, has_parent_map |-> TRUE,
             has_nodes |-> TRUE]
  \/ m = [nodes |-> ns, parent_map |-> <<>>, has_parent_map |-> FALSE,
          has_nodes |-> TRUE]

\* the parsed content of a JSON object without a nodes member
NoNodesJson ==
  [nodes |-> <<>>, parent_map |-> <<>>, has_parent_map |-> TRUE,
   has_nodes |-> FALSE]

\* the node sequences made of models only
ModelNodeSeqSet == { s \in NodeSeqSet : \A i \in 1..Len(s) : IsModel(s[i]) }

RefreshNodeSeqSet ==
  { s \in NodeSeqs(RefreshMaxNodes) :
      DistinctIds(s) /\ \A i \in 1..Len(s) : s[i] \in RefreshNodePool }

\* the parsed content of a manifest.json that dbt may write between two
\* refreshes
IsRefreshJson(m) ==
  \/ \E ns \in RefreshNodeSeqSet :
        \/ \E pm \in [ModelIdsOf(ns) -> RefreshParentLists] :
              m = [nodes |-> ns, parent_map |-> pm, has_parent_map |-> TRUE,
                   has_nodes |-> TRUE]
        \/ m = [nodes |-> ns, parent_map |-> <<>>, has_parent_map |-> FALSE,
                has_nodes |-> TRUE]
  \/ m = NoNodesJson

(***************************************************************************)
(* Map<string, number>: a sequence of <<key, value>> in insertion order.   *)
(***************************************************************************)
MapHas(t, k) == \E i \in 1..Len(t) : t[i][1] = k

MapGet(t, k) ==
  IF MapHas(t, k) THEN t[CHOOSE i \in 1..Len(t) : t[i][1] = k][2] ELSE undefined

\* mutant of MapSet: an existing key keeps its first value
MapSetKeepFirst(t, k, v) ==
  IF MapHas(t, k) THEN t ELSE Append(t, <<k, v>>)

MapSet(t, k, v) ==
  IF MapHas(t, k)
  THEN [i \in 1..Len(t) |-> IF t[i][1] = k THEN <<k, v>> ELSE t[i]]
  ELSE Append(t, <<k, v>>)

MapKeys(t) == { t[i][1] : i \in 1..Len(t) }

(***************************************************************************)
(* String predicates on segment sequences.                                 *)
(***************************************************************************)
\* parent.startsWith('model.')
startsWithModel(p) == Len(p) >= 2 /\ p[1] = "model"

\* key.endsWith(`.${modelName}`)
endsWith(key, modelName) ==
  /\ Len(key) > Len(modelName)
  /\ SubSeq(key, Len(key) - Len(modelName) + 1, Len(key)) = modelName

(***************************************************************************)
(* calculateModelDepths, shared part: the models of the manifest and their *)
(* retained parents.                                                       *)
(***************************************************************************)
models(m) == modelsOf(m.nodes)

\* (parent_map[model.id] || []).filter(parent => parent.startsWith('model.'))
parentModels(m, id) == SelectSeq(m.parent_map[id], startsWithModel)

\* mutant of calculateThrows: parent_map is dereferenced before the loop
calculateThrowsEager(m) == ~m.has_nodes \/ ~m.has_parent_map

\* Object.entries(nodes) throws a TypeError when nodes is undefined, and
\* parent_map[model.id] throws one when parent_map is undefined
calculateThrows(m) ==
  \/ ~m.has_nodes
  \/ ~m.has_parent_map /\ Len(models(m)) > 0

\* mutant of clear: the earlier entries are kept
clearNothing(t) == t

\* this._modelDepths.clear()
clear(t) == <<>>

RECURSIVE storeDepths(_, _, _)
storeDepths(ms, depthOf, t) ==
  IF ms = <<>> THEN t
  ELSE LET model == Head(ms)
           depth == depthOf[model.id]
       IN  storeDepths(Tail(ms), depthOf,
                       MapSet(MapSet(t, model.name, depth), model.id, depth))

(***************************************************************************)
(* src/unnamed/part_002: topological propagation.                          *)
(***************************************************************************)
\* childGraph.get(parent): the ids of the models that list parent, in models
\* order, once per occurrence of parent in the model's retained parents
RECURSIVE childrenOf(_, _, _)
childrenOf(m, ms, parent) ==
  IF ms = <<>> THEN <<>>
  ELSE LET id == Head(ms).id
           occurrences == SelectSeq(parentModels(m, id), LAMBDA q : q = parent)
       IN  [i \in 1..Len(occurrences) |-> id] \o childrenOf(m, Tail(ms), parent)

childGraph(m) ==
  [id \in ModelIdsOf(m.nodes) |-> childrenOf(m, models(m), id)]

\* mutant of initDepths: every model starts at depth 1
initDepthsAllOne(m) == [id \in ModelIdsOf(m.nodes) |-> 1]

initDepths(m) ==
  [id \in ModelIdsOf(m.nodes) |-> IF Len(parentModels(m, id)) = 0 THEN 1 ELSE 0]

\* mutant of initInDegree: the distinct retained parents are counted
initInDegreeDistinct(m) ==
  [id \in ModelIdsOf(m.nodes) |-> Cardinality(Range(parentModels(m, id)))]

initInDegree(m) ==
  [id \in ModelIdsOf(m.nodes) |-> Len(parentModels(m, id))]

initQueue(m) ==
  LET roots == SelectSeq(models(m), LAMBDA n : initInDegree(m)[n.id] = 0)
  IN  [i \in 1..Len(roots) |-> roots[i].id]

\* mutant of processChildren: a child is pushed one parent early
RECURSIVE processChildrenEnqueueEarly(_, _, _)
processChildrenEnqueueEarly(children, currentDepth, st) ==
  IF children = <<>> THEN st
  ELSE LET childId == Head(children)
           newDepth == Max(st.depths[childId], currentDepth + 1)
           newInDegree == st.inDegree[childId] - 1
       IN  processChildrenEnqueueEarly(Tail(children), currentDepth,
             [depths |-> [st.depths EXCEPT ![childId] = newDepth],
              inDegree |-> [st.inDegree EXCEPT ![childId] = newInDegree],
              queue |-> IF newInDegree = 1 \/ newInDegree = 0
                        THEN Append(st.queue, childId)
                        ELSE st.queue])

\* the for loop over the children of the dequeued node
RECURSIVE processChildren(_, _, _)
processChildren(children, currentDepth, st) ==
  IF children = <<>> THEN st
  ELSE LET childId == Head(children)
           newDepth == Max(st.depths[childId], currentDepth + 1)
           newInDegree == st.inDegree[childId] - 1
       IN  processChildren(Tail(children), currentDepth,
             [depths |-> [st.depths EXCEPT ![childId] = newDepth],
              inDegree |-> [st.inDegree EXCEPT ![childId] = newInDegree],
              queue |-> IF newInDegree = 0 THEN Append(st.queue, childId)
                        ELSE st.queue])

\* one iteration of while (queue.length > 0)
dequeueStep(graph, st) ==
  LET currentId == Head(st.queue)
  IN  processChildren(graph[currentId], st.depths[currentId],
                      [st EXCEPT !.queue = Tail(st.queue)])

RECURSIVE processQueue(_, _)
processQueue(graph, st) ==
  IF st.queue = <<>> THEN st ELSE processQueue(graph, dequeueStep(graph, st))

topologicalDepths(m) ==
  processQueue(childGraph(m),
               [depths |-> initDepths(m), inDegree |-> initInDegree(m),
                queue |-> initQueue(m)]).depths

\* the table after calculateModelDepths of part_002 (cleared, then stored;
\* left cleared when parent_map is missing)
calculateModelDepthsTopological(m, t) ==
  IF calculateThrows(m) THEN clear(t)
  ELSE storeDepths(models(m), topologicalDepths(m), clear(t))

(***************************************************************************)
(* The copies of calculateModelDepths in the unit tests ("extracted from   *)
(* manifestParser.ts"): the topological propagation into a new Map.        *)
(***************************************************************************)
\* (manifest.parent_map && manifest.parent_map[model.id]) || []
withParentMapGuard(m) ==
  IF m.has_parent_map THEN m
  ELSE [m EXCEPT !.parent_map = [id \in ModelIdsOf(m.nodes) |-> <<>>],
                 !.has_parent_map = TRUE]

\* the copy of depthCalculation.test.ts (the returned Map; <<>> when it
\* throws)
calculateModelDepthsTestCopy(m) == calculateModelDepthsTopological(m, <<>>)

\* the copy of manifestParser.isolated.test.ts
calculateModelDepthsIsolated(m) ==
  calculateModelDepthsTopological(withParentMapGuard(m), <<>>)

(***************************************************************************)
(* src/src/manifestParser.ts: breadth-first search from every model.       *)
(***************************************************************************)
\* graph.get(id) || []
graphGet(m, id) ==
  IF id \in ModelIdsOf(m.nodes) THEN parentModels(m, id) ELSE <<>>

\* mutant of bfsLoop: queue.pop() instead of queue.shift()
RECURSIVE bfsLoopStack(_, _, _, _)
bfsLoopStack(m, queue, visited, maxDepth) ==
  IF queue = <<>> THEN maxDepth
  ELSE LET last == queue[Len(queue)]
           rest == SubSeq(queue, 1, Len(queue) - 1)
           id == last[1]
           depth == last[2]
           parents == graphGet(m, id)
       IN  IF id \in visited THEN bfsLoopStack(m, rest, visited, maxDepth)
           ELSE bfsLoopStack(m,
                             rest \o [i \in 1..Len(parents) |-> <<parents[i], depth + 1>>],
                             visited \cup {id}, Max(maxDepth, depth))

RECURSIVE bfsLoop(_, _, _, _)
bfsLoop(m, queue, visited, maxDepth) ==
  IF queue = <<>> THEN maxDepth
  ELSE LET id == Head(queue)[1]
           depth == Head(queue)[2]
           parents == graphGet(m, id)
       IN  IF id \in visited THEN bfsLoop(m, Tail(queue), visited, maxDepth)
           ELSE bfsLoop(m,
                        Tail(queue) \o [i \in 1..Len(parents) |-> <<parents[i], depth + 1>>],
                        visited \cup {id}, Max(maxDepth, depth))

calculateDepth(m, startNodeId) == bfsLoop(m, << <<startNodeId, 0>> >>, {}, 0)

bfsDepths(m) == [id \in ModelIdsOf(m.nodes) |-> calculateDepth(m, id)]

\* the table after calculateModelDepths of manifestParser.ts (every model
\* initialised to 0 first; left that way when parent_map is missing)
calculateModelDepthsBfs(m, t) ==
  LET zeros == storeDepths(models(m), [id \in ModelIdsOf(m.nodes) |-> 0],
                           clear(t))
  IN  IF calculateThrows(m) THEN zeros
      ELSE storeDepths(models(m), bfsDepths(m), zeros)

\* depths.get(id) / calculateDepth(id): the depth computed for a model
computedDepths(p, m) ==
  IF p = "bfs" THEN bfsDepths(m) ELSE topologicalDepths(m)

\* calculateModelDepths on the table t left by the run before
calculateModelDepths(p, m, t) ==
  IF p = "bfs" THEN calculateModelDepthsBfs(m, t)
  ELSE calculateModelDepthsTopological(m, t)

(***************************************************************************)
(* getModelDepth                                                           *)
(***************************************************************************)
\* for (const [key, value] of entries()) if (key.endsWith(...)) return value
\* mutant of suffixScan: the last matching key wins
suffixScanLast(t, modelName) ==
  LET matches == { i \in 1..Len(t) : endsWith(t[i][1], modelName) }
  IN  IF matches = {} THEN undefined
      ELSE t[CHOOSE i \in matches : \A j \in matches : i >= j][2]

suffixScan(t, modelName) ==
  LET matches == { i \in 1..Len(t) : endsWith(t[i][1], modelName) }
  IN  IF matches = {} THEN undefined
      ELSE t[CHOOSE i \in matches : \A j \in matches : i <= j][2]

\* mutant of getModelDepth: a miss returns 0 instead of undefined
getModelDepthZero(t, modelName) ==
  LET depth == MapGet(t, modelName)
      found == IF depth # undefined THEN depth ELSE suffixScan(t, modelName)
  IN  IF found = undefined THEN 0 ELSE found

\* mutant of getModelDepth: if (depth) instead of if (depth !== undefined)
getModelDepthTruthy(t, modelName) ==
  LET depth == MapGet(t, modelName)
  IN  IF depth # undefined /\ depth # 0 THEN depth ELSE suffixScan(t, modelName)

getModelDepth(t, modelName) ==
  LET depth == MapGet(t, modelName)
  IN  IF depth # undefined THEN depth ELSE suffixScan(t, modelName)

(***************************************************************************)
(* The loops of calculateModelDepths, one iteration at a time.  loop holds *)
(* the local variables of the running computation; dequeued and enqueued   *)
(* list the ids that queue.shift() returned and that queue.push() took, in *)
(* order.                                                                  *)
(***************************************************************************)
\* part_002 before the while loop, manifestParser.ts before the first
\* calculateDepth call
loopStart(p, m) ==
  IF p = "topological"
  THEN [phase |-> "loop", depths |-> initDepths(m),
        inDegree |-> initInDegree(m), queue |-> initQueue(m),
        children |-> <<>>, currentDepth |-> 0,
        dequeued |-> <<>>, enqueued |-> initQueue(m)]
  ELSE IF Len(models(m)) = 0 THEN [phase |-> "stored"]
  ELSE [phase |-> "loop", index |-> 1,
        queue |-> << <<models(m)[1].id, 0>> >>, visited |-> {},
        maxDepth |-> 0]

\* mutant of loopFinished: the loop also waits for every inDegree to be 0
loopFinishedAllResolved(l) ==
  /\ l.queue = <<>>
  /\ l.children = <<>>
  /\ \A id \in DOMAIN l.inDegree : l.inDegree[id] = 0

\* while (queue.length > 0) is left
loopFinished(l) == l.queue = <<>> /\ l.children = <<>>

\* one iteration of the while loop of calculateDepth
bfsStep(m, l) ==
  LET id == Head(l.queue)[1]
      depth == Head(l.queue)[2]
      parents == graphGet(m, id)
  IN  IF id \in l.visited THEN [l EXCEPT !.queue = Tail(l.queue)]
      ELSE [l EXCEPT !.queue = Tail(l.queue) \o
                                 [i \in 1..Len(parents) |-> <<parents[i], depth + 1>>],
                     !.visited = l.visited \cup {id},
                     !.maxDepth = Max(l.maxDepth, depth)]

(***************************************************************************)
(* decorationProvider.ts: the number shown for a depth found in the table. *)
(***************************************************************************)
\* const adjustedDepth = depth + 1; the overlay text is (adjustedDepth)
adjustedDepth(depth) == depth + 1

(***************************************************************************)
(* decorationProvider.ts: documents, the shared REF_PATTERN and the two    *)
(* scans that use it.                                                      *)
(*                                                                         *)
(* The text of a document is the sequence of its pieces: <<"ref", name>>   *)
(* is one match of REF_PATTERN, {{ ref('name') }}, and <<"sql">> is text   *)
(* that no match overlaps and that does not contain 'ref('.  An offset in  *)
(* the text is the number of pieces before it, so the match at piece i     *)
(* ends at offset i, and REF_PATTERN.lastIndex is such an offset.          *)
(***************************************************************************)
\* no editor is visible: the listener's forEach has nothing to update
closedDocument == [isSqlFile |-> FALSE, inModels |-> FALSE, text |-> <<>>]

\* provideHoverForDepthIndicator returned undefined
noHover == <<>>

\* the refreshes in flight: awaiting findManifestFile, and about to resume
\* with the path it found or with undefined
noRefreshes == [searching |-> 0, found |-> 0, notFound |-> 0]

\* the manifest content read last: the text readFileSync returned and
\* JSON.parse accepted, in a refresh that meets a file of this kind
readBy(kind, content, before) == IF kind = "json" THEN <<content>> ELSE before

IsRef(piece) == piece[1] = "ref"

\* document.getText().includes('ref(')
includesRef(text) == \E i \in 1..Len(text) : IsRef(text[i])

\* isDbtFile: an SQL file that contains a ref( call or lies under models
isDbtFile(doc) == doc.isSqlFile /\ (includesRef(doc.text) \/ doc.inModels)

\* the matches of REF_PATTERN that start at or after offset from
matchesFrom(text, from) == { i \in (from + 1)..Len(text) : IsRef(text[i]) }

\* REF_PATTERN.exec(text) of a global pattern: the first match at or after
\* lastIndex, which then becomes the end of that match; without a match
\* the result is null (match 0) and lastIndex becomes 0
exec(text, from) ==
  IF matchesFrom(text, from) = {} THEN [match |-> 0, lastIndex |-> 0]
  ELSE LET i == CHOOSE j \in matchesFrom(text, from) :
                  \A k \in matchesFrom(text, from) : j <= k
       IN [match |-> i, lastIndex |-> i]

\* the while loop of updateDecorations: one decoration <<match, number
\* shown>> for every match found whose model has a depth
RECURSIVE scanDecorations(_, _, _, _)
scanDecorations(text, from, table, decorations) ==
  LET found == exec(text, from)
  IN IF found.match = 0 THEN [decorations |-> decorations, lastIndex |-> 0]
     ELSE LET depth == getModelDepth(table, text[found.match][2])
          IN scanDecorations(text, found.lastIndex, table,
               IF depth # undefined
                 THEN Append(decorations,
                             <<found.match, adjustedDepth(depth)>>)
                 ELSE decorations)

\* updateDecorations(editor): the decorations of the editor and the
\* lastIndex of REF_PATTERN after the call; nothing is set for a file that
\* is not a dbt file
updateDecorations(doc, from, table, old) ==
  IF ~isDbtFile(doc) THEN [decorations |-> old, lastIndex |-> from]
  ELSE scanDecorations(doc.text, from, table, <<>>)

\* isHoverNearReference: the position is on the line where the match ends,
\* at most 6 characters after its end.  A match is at least 12 characters
\* long, so a position is near the end of at most one match: position is
\* the match it is near, 0 when it is near none
isHoverNearReference(match, position) == position = match

\* the while loop of provideHoverForDepthIndicator: returns from inside the
\* loop at the match the position is near when its model has a depth
RECURSIVE scanHover(_, _, _, _)
scanHover(text, from, table, position) ==
  LET found == exec(text, from)
  IN IF found.match = 0 THEN [hover |-> noHover, lastIndex |-> 0]
     ELSE LET depth == getModelDepth(table, text[found.match][2])
          IN IF isHoverNearReference(found.match, position)
                /\ depth # undefined
               THEN [hover |-> << <<found.match, adjustedDepth(depth)>> >>,
                     lastIndex |-> found.lastIndex]
               ELSE scanHover(text, found.lastIndex, table, position)

\* provideHoverForDepthIndicator(document, position): this.REF_PATTERN
\* .lastIndex = 0 before the loop
provideHoverForDepthIndicator(doc, from, table, position) ==
  IF ~isDbtFile(doc) THEN [hover |-> noHover, lastIndex |-> from]
  ELSE scanHover(doc.text, 0, table, position)

(***************************************************************************)
(* refreshManifest: the state of the parser after one call, from the file  *)
(* on disk and the manifest and table the call starts with.  fired is the  *)
(* number of manifest-updated events the call fires and listenerSaw the    *)
(* table its listeners read from during the event (<<>> when none fires).  *)
(***************************************************************************)
\* mutant of refreshManifest: the table is cleared before the file is read
refreshManifestClearFirst(p, kind, content, oldManifest, oldTable) ==
  IF kind = "absent"
  THEN [manifest |-> oldManifest, modelDepths |-> oldTable,
        refreshStatus |-> "notfound", reported |-> "none",
        fired |-> 0, listenerSaw |-> <<>>]
  ELSE IF kind \in {"unreadable", "malformed"}
  THEN [manifest |-> oldManifest, modelDepths |-> clear(oldTable),
        refreshStatus |-> "failed",
        reported |-> IF kind = "malformed" THEN "SyntaxError" ELSE "Error",
        fired |-> 0, listenerSaw |-> <<>>]
  ELSE LET newTable == calculateModelDepths(p, content, oldTable)
       IN  IF calculateThrows(content)
           THEN [manifest |-> <<content>>, modelDepths |-> newTable,
                 refreshStatus |-> "failed", reported |-> "TypeError",
                 fired |-> 0, listenerSaw |-> <<>>]
           ELSE [manifest |-> <<content>>, modelDepths |-> newTable,
                 refreshStatus |-> "ok", reported |-> "none",
                 fired |-> 1, listenerSaw |-> newTable]

\* mutant of refreshManifest: the event is fired before calculateModelDepths
refreshManifestFireFirst(p, kind, content, oldManifest, oldTable) ==
  IF kind = "absent"
  THEN [manifest |-> oldManifest, modelDepths |-> oldTable,
        refreshStatus |-> "notfound", reported |-> "none",
        fired |-> 0, listenerSaw |-> <<>>]
  ELSE IF kind \in {"unreadable", "malformed"}
  THEN [manifest |-> oldManifest, modelDepths |-> oldTable,
        refreshStatus |-> "failed",
        reported |-> IF kind = "malformed" THEN "SyntaxError" ELSE "Error",
        fired |-> 0, listenerSaw |-> <<>>]
  ELSE LET newTable == calculateModelDepths(p, content, oldTable)
       IN  IF calculateThrows(content)
           THEN [manifest |-> <<content>>, modelDepths |-> newTable,
                 refreshStatus |-> "failed", reported |-> "TypeError",
                 fired |-> 1, listenerSaw |-> oldTable]
           ELSE [manifest |-> <<content>>, modelDepths |-> newTable,
                 refreshStatus |-> "ok", reported |-> "none",
                 fired |-> 1, listenerSaw |-> oldTable]

refreshManifest(p, kind, content, oldManifest, oldTable) ==
  IF kind = "absent"
  THEN \* if (!manifestPath) return
       [manifest |-> oldManifest, modelDepths |-> oldTable,
        refreshStatus |-> "notfound", reported |-> "none",
        fired |-> 0, listenerSaw |-> <<>>]
  ELSE IF kind \in {"unreadable", "malformed"}
  THEN \* readFileSync or JSON.parse throws before this.manifest is assigned
       [manifest |-> oldManifest, modelDepths |-> oldTable,
        refreshStatus |-> "failed",
        reported |-> IF kind = "malformed" THEN "SyntaxError" ELSE "Error",
        fired |-> 0, listenerSaw |-> <<>>]
  ELSE LET newTable == calculateModelDepths(p, content, oldTable)
       IN  IF calculateThrows(content)
           THEN \* this.manifest is assigned, the throw skips fire()
                [manifest |-> <<content>>, modelDepths |-> newTable,
                 refreshStatus |-> "failed", reported |-> "TypeError",
                 fired |-> 0, listenerSaw |-> <<>>]
           ELSE [manifest |-> <<content>>, modelDepths |-> newTable,
                 refreshStatus |-> "ok", reported |-> "none",
                 fired |-> 1, listenerSaw |-> newTable]

(***************************************************************************)
(* Operations                                                              *)
(***************************************************************************)
Init ==
  /\ parser \in {"bfs", "topological"}
  /\ fileKind = "json"
  /\ \E ns \in NodeSeqSet : IsManifest(fileContent, ns, MaxEdges)
  /\ manifest = null
  /\ modelDepths = <<>>
  /\ refreshStatus = "none"
  /\ reported = "none"
  /\ fired = 0
  /\ listenerSaw = <<>>
  /\ repeated = FALSE
  /\ lookup = <<>>
  /\ loop = [phase |-> "idle"]
  /\ pending = noRefreshes
  /\ lastIndex = 0
  /\ decorated = <<>>
  /\ document = closedDocument
  /\ hover = noHover
  /\ lastRead = <<>>

\* refreshManifest on the file now on disk; an error thrown while reading,
\* parsing or computing is caught and reported.  The event it fires runs
\* the listener registered by the decoration provider.  repeated says that this
\* call and the one before it both succeeded on the same content.  lookup
\* is the last getModelDepth call made on the current table.
RefreshManifest ==
  \E after \in { refreshManifest(parser, fileKind, fileContent, manifest,
                                 modelDepths) } :
    /\ manifest' = after.manifest
    /\ modelDepths' = after.modelDepths
    /\ refreshStatus' = after.refreshStatus
    /\ reported' = after.reported
    /\ fired' = after.fired
    /\ listenerSaw' = after.listenerSaw
    /\ repeated' = /\ refreshStatus = "ok"
                   /\ after.refreshStatus = "ok"
                   /\ manifest = <<fileContent>>
    /\ lookup' = <<>>
    \* the listener of the decoration provider updates the visible editor
    /\ \E shown \in { IF after.fired = 1
                        THEN updateDecorations(document, lastIndex,
                                               after.modelDepths, decorated)
                        ELSE [decorations |-> decorated,
                              lastIndex |-> lastIndex] } :
         /\ decorated' = shown.decorations
         /\ lastIndex' = shown.lastIndex
    /\ lastRead' = readBy(fileKind, fileContent, lastRead)
    /\ UNCHANGED <<parser, fileKind, fileContent, loop, pending, document,
                   hover>>

\* a caller (updateDecorations, the hover provider) looks a name up
GetModelDepth ==
  \E modelName \in LookupNames :
    /\ lookup' = <<modelName, getModelDepth(modelDepths, modelName)>>
    /\ UNCHANGED <<parser, fileKind, fileContent, manifest, modelDepths,
                   refreshStatus, reported, fired, listenerSaw, repeated,
                   loop, pending, lastIndex, decorated,
                 document, hover, lastRead>>

\* dbt (or the user) rewrites, damages or removes target/manifest.json
ChangeFile ==
  \E kind \in FileKinds :
    /\ fileKind' = kind
    /\ IF kind = "json" THEN IsRefreshJson(fileContent')
       ELSE fileContent' = NoNodesJson
    /\ UNCHANGED <<parser, manifest, modelDepths, refreshStatus, reported,
                   fired, listenerSaw, repeated, lookup, loop, pending,
                   lastIndex, decorated,
                 document, hover, lastRead>>

\* the depth computation on every manifest of the input space
Next == RefreshManifest

Spec == Init /\ [][Next]_vars

\* lookups, on the tables of the manifests with few parent entries
InitLookup ==
  /\ parser \in {"bfs", "topological"}
  /\ fileKind = "json"
  /\ \E ns \in NodeSeqSet : IsManifest(fileContent, ns, LookupMaxEdges)
  /\ manifest = null
  /\ modelDepths = <<>>
  /\ refreshStatus = "none"
  /\ reported = "none"
  /\ fired = 0
  /\ listenerSaw = <<>>
  /\ repeated = FALSE
  /\ lookup = <<>>
  /\ loop = [phase |-> "idle"]
  /\ pending = noRefreshes
  /\ lastIndex = 0
  /\ decorated = <<>>
  /\ document = closedDocument
  /\ hover = noHover
  /\ lastRead = <<>>

NextLookup == RefreshManifest \/ GetModelDepth

SpecLookup == InitLookup /\ [][NextLookup]_vars

\* the depth computation on the manifests whose nodes are all models, for
\* comparing orderings of the same nodes and parents
InitOrder ==
  /\ parser \in {"bfs", "topological"}
  /\ fileKind = "json"
  /\ \E ns \in ModelNodeSeqSet : IsManifest(fileContent, ns, MaxEdges)
  /\ fileContent.has_parent_map
  /\ manifest = null
  /\ modelDepths = <<>>
  /\ refreshStatus = "none"
  /\ reported = "none"
  /\ fired = 0
  /\ listenerSaw = <<>>
  /\ repeated = FALSE
  /\ lookup = <<>>
  /\ loop = [phase |-> "idle"]
  /\ pending = noRefreshes
  /\ lastIndex = 0
  /\ decorated = <<>>
  /\ document = closedDocument
  /\ hover = noHover
  /\ lastRead = <<>>

NextOrder == RefreshManifest

SpecOrder == InitOrder /\ [][NextOrder]_vars

\* queue.shift() and the lookup of the children of the dequeued node
Dequeue ==
  /\ parser = "topological"
  /\ loop.phase = "loop"
  /\ loop.children = <<>>
  /\ loop.queue # <<>>
  /\ LET currentId == Head(loop.queue)
     IN  loop' = [loop EXCEPT !.queue = Tail(loop.queue),
                              !.currentDepth = loop.depths[currentId],
                              !.children = childGraph(manifest[1])[currentId],
                              !.dequeued = Append(loop.dequeued, currentId)]
  /\ UNCHANGED <<parser, fileKind, fileContent, manifest, modelDepths,
                 refreshStatus, reported, fired, listenerSaw, repeated,
                 lookup, pending, lastIndex, decorated,
                 document, hover, lastRead>>

\* one iteration of the for loop over the children of the dequeued node
ProcessChild ==
  /\ parser = "topological"
  /\ loop.phase = "loop"
  /\ loop.children # <<>>
  /\ LET childId == Head(loop.children)
         st == processChildren(<<childId>>, loop.currentDepth,
                               [depths |-> loop.depths,
                                inDegree |-> loop.inDegree,
                                queue |-> loop.queue])
     IN  loop' = [loop EXCEPT !.depths = st.depths,
                              !.inDegree = st.inDegree,
                              !.queue = st.queue,
                              !.children = Tail(loop.children),
                              !.enqueued = IF Len(st.queue) > Len(loop.queue)
                                           THEN Append(loop.enqueued, childId)
                                           ELSE loop.enqueued]
  /\ UNCHANGED <<parser, fileKind, fileContent, manifest, modelDepths,
                 refreshStatus, reported, fired, listenerSaw, repeated,
                 lookup, pending, lastIndex, decorated,
                 document, hover, lastRead>>

\* the while loop is left: the depths are stored under name and id
StoreDepths ==
  /\ parser = "topological"
  /\ loop.phase = "loop"
  /\ loopFinished(loop)
  /\ modelDepths' = storeDepths(models(manifest[1]), loop.depths, modelDepths)
  /\ loop' = [loop EXCEPT !.phase = "stored"]
  /\ UNCHANGED <<parser, fileKind, fileContent, manifest, refreshStatus,
                 reported, fired, listenerSaw, repeated, lookup, pending,
                 lastIndex, decorated,
                 document, hover, lastRead>>

\* one iteration of the while loop of calculateDepth(model.id)
BfsVisit ==
  /\ parser = "bfs"
  /\ loop.phase = "loop"
  /\ loop.queue # <<>>
  /\ loop' = bfsStep(manifest[1], loop)
  /\ UNCHANGED <<parser, fileKind, fileContent, manifest, modelDepths,
                 refreshStatus, reported, fired, listenerSaw, repeated,
                 lookup, pending, lastIndex, decorated,
                 document, hover, lastRead>>

\* calculateDepth returns maxDepth; it is stored under name and id and the
\* for loop goes on to the next model
BfsStoreDepth ==
  /\ parser = "bfs"
  /\ loop.phase = "loop"
  /\ loop.queue = <<>>
  /\ LET ms == models(manifest[1])
         model == ms[loop.index]
     IN  /\ modelDepths' = MapSet(MapSet(modelDepths, model.name, loop.maxDepth),
                                  model.id, loop.maxDepth)
         /\ loop' = IF loop.index = Len(ms) THEN [phase |-> "stored"]
                    ELSE [phase |-> "loop", index |-> loop.index + 1,
                          queue |-> << <<ms[loop.index + 1].id, 0>> >>,
                          visited |-> {}, maxDepth |-> 0]
  /\ UNCHANGED <<parser, fileKind, fileContent, manifest, refreshStatus,
                 reported, fired, listenerSaw, repeated, lookup, pending,
                 lastIndex, decorated,
                 document, hover, lastRead>>

\* calculateModelDepths returns to refreshManifest, which fires the event
Return ==
  /\ loop.phase = "stored"
  /\ loop' = [phase |-> "done"]
  /\ refreshStatus' = "ok"
  /\ fired' = 1
  /\ listenerSaw' = modelDepths
  /\ UNCHANGED <<parser, fileKind, fileContent, manifest, modelDepths,
                 reported, repeated, lookup, pending, lastIndex, decorated,
                 document, hover, lastRead>>

\* a refresh from the point where calculateModelDepths has cleared the table
\* and built its graphs, on the manifests whose nodes are all models
InitLoop ==
  /\ parser \in {"bfs", "topological"}
  /\ fileKind = "json"
  /\ \E ns \in ModelNodeSeqSet : IsManifest(fileContent, ns, LoopMaxEdges)
  /\ fileContent.has_parent_map
  /\ manifest = <<fileContent>>
  /\ modelDepths =
       IF parser = "bfs"
       THEN storeDepths(models(fileContent),
                        [id \in ModelIdsOf(fileContent.nodes) |-> 0], <<>>)
       ELSE <<>>
  /\ refreshStatus = "none"
  /\ reported = "none"
  /\ fired = 0
  /\ listenerSaw = <<>>
  /\ repeated = FALSE
  /\ lookup = <<>>
  /\ loop = loopStart(parser, fileContent)
  /\ pending = noRefreshes
  /\ lastIndex = 0
  /\ decorated = <<>>
  /\ document = closedDocument
  /\ hover = noHover
  /\ lastRead = <<>>

NextLoop ==
  \/ Dequeue
  \/ ProcessChild
  \/ StoreDepths
  \/ BfsVisit
  \/ BfsStoreDepth
  \/ Return

SpecLoop == InitLoop /\ [][NextLoop]_vars

\* the computation is synchronous code: it keeps running until it returns
SpecLoopFair == SpecLoop /\ WF_vars(NextLoop)

\* refreshes of a manifest.json that changes between them
InitRefresh ==
  /\ parser \in {"bfs", "topological"}
  /\ fileKind \in FileKinds
  /\ IF fileKind = "json" THEN IsRefreshJson(fileContent)
     ELSE fileContent = NoNodesJson
  /\ manifest = null
  /\ modelDepths = <<>>
  /\ refreshStatus = "none"
  /\ reported = "none"
  /\ fired = 0
  /\ listenerSaw = <<>>
  /\ repeated = FALSE
  /\ lookup = <<>>
  /\ loop = [phase |-> "idle"]
  /\ pending = noRefreshes
  /\ lastIndex = 0
  /\ decorated = <<>>
  /\ document = closedDocument
  /\ hover = noHover
  /\ lastRead = <<>>

NextRefresh == RefreshManifest \/ ChangeFile

SpecRefresh == InitRefresh /\ [][NextRefresh]_vars

(***************************************************************************)
(* Refreshes in flight together.  refreshManifest is async: a call runs    *)
(* up to await findManifestFile() and returns a promise; the rest of it    *)
(* (the test of the path, readFileSync, JSON.parse, calculateModelDepths,  *)
(* fire) is synchronous and runs in one piece when the await resumes.      *)
(* Callers never await the promise, so a new call may start while others   *)
(* are suspended, and the file on disk may change at any time.             *)
(***************************************************************************)
InFlight == pending.searching + pending.found + pending.notFound

\* activation, the refresh command or a watcher event calls refreshManifest
StartRefresh ==
  /\ InFlight < MaxPending
  /\ pending' = [pending EXCEPT !.searching = @ + 1]
  /\ UNCHANGED <<parser, fileKind, fileContent, manifest, modelDepths,
                 refreshStatus, reported, fired, listenerSaw, repeated,
                 lookup, loop, lastIndex, decorated, document, hover,
                 lastRead>>

\* findManifestFile of one suspended call settles with what is on disk now
FindManifestFile ==
  /\ pending.searching > 0
  /\ pending' = IF fileKind = "absent"
                  THEN [pending EXCEPT !.searching = @ - 1,
                                       !.notFound = @ + 1]
                  ELSE [pending EXCEPT !.searching = @ - 1, !.found = @ + 1]
  /\ UNCHANGED <<parser, fileKind, fileContent, manifest, modelDepths,
                 refreshStatus, reported, fired, listenerSaw, repeated,
                 lookup, loop, lastIndex, decorated, document, hover,
                 lastRead>>

\* what readFileSync meets at a path that was found earlier: a file removed
\* in the meantime makes it throw like one that cannot be read
kindAtRead(kind) == IF kind = "absent" THEN "unreadable" ELSE kind

\* a call resumes with a path: it reads the file as it is now, parses,
\* computes and fires, with no other call in between
ResumeRefresh ==
  /\ pending.found > 0
  /\ pending' = [pending EXCEPT !.found = @ - 1]
  /\ \E after \in { refreshManifest(parser, kindAtRead(fileKind),
                                    fileContent, manifest, modelDepths) } :
       /\ manifest' = after.manifest
       /\ modelDepths' = after.modelDepths
       /\ refreshStatus' = after.refreshStatus
       /\ reported' = after.reported
       /\ fired' = after.fired
       /\ listenerSaw' = after.listenerSaw
       /\ repeated' = /\ refreshStatus = "ok"
                      /\ after.refreshStatus = "ok"
                      /\ manifest = <<fileContent>>
       /\ \E shown \in { IF after.fired = 1
                           THEN updateDecorations(document, lastIndex,
                                                  after.modelDepths,
                                                  decorated)
                           ELSE [decorations |-> decorated,
                                 lastIndex |-> lastIndex] } :
            /\ decorated' = shown.decorations
            /\ lastIndex' = shown.lastIndex
  /\ lookup' = <<>>
  /\ lastRead' = readBy(kindAtRead(fileKind), fileContent, lastRead)
  /\ UNCHANGED <<parser, fileKind, fileContent, loop, document, hover>>

\* a call resumes with undefined: 'Manifest file not found', return
ResumeNotFound ==
  /\ pending.notFound > 0
  /\ pending' = [pending EXCEPT !.notFound = @ - 1]
  /\ refreshStatus' = "notfound"
  /\ reported' = "none"
  /\ fired' = 0
  /\ listenerSaw' = <<>>
  /\ repeated' = FALSE
  /\ lookup' = <<>>
  /\ UNCHANGED <<parser, fileKind, fileContent, manifest, modelDepths, loop,
                 lastIndex, decorated, document, hover, lastRead>>

InitConcurrent == InitRefresh

NextConcurrent ==
  \/ StartRefresh
  \/ FindManifestFile
  \/ ResumeRefresh
  \/ ResumeNotFound
  \/ ChangeFile

SpecConcurrent == InitConcurrent /\ [][NextConcurrent]_vars

(***************************************************************************)
(* The decoration provider on one visible editor: the handlers of          *)
(* extension.ts that call updateDecorations, the hover provider, and the   *)
(* refreshes whose event runs the provider's listener.                     *)
(***************************************************************************)
\* onDidChangeActiveTextEditor, onDidChangeTextDocument and
\* onDidChangeConfiguration call updateDecorations on the editor
UpdateDecorations ==
  \E shown \in { updateDecorations(document, lastIndex, modelDepths,
                                   decorated) } :
    /\ decorated' = shown.decorations
    /\ lastIndex' = shown.lastIndex
    /\ UNCHANGED <<parser, fileKind, fileContent, manifest, modelDepths,
                   refreshStatus, reported, fired, listenerSaw, repeated,
                   lookup, loop, pending, document, hover, lastRead>>

\* the editor asks for a hover at a position of the document
ProvideHover ==
  \E position \in 0..Len(document.text) :
    \E shown \in { provideHoverForDepthIndicator(document, lastIndex,
                                                 modelDepths, position) } :
      /\ hover' = shown.hover
      /\ lastIndex' = shown.lastIndex
      /\ UNCHANGED <<parser, fileKind, fileContent, manifest, modelDepths,
                     refreshStatus, reported, fired, listenerSaw, repeated,
                     lookup, loop, pending, decorated, document,
                     lastRead>>

InitDecor ==
  /\ parser \in {"bfs", "topological"}
  /\ fileKind \in FileKinds
  /\ IF fileKind = "json" THEN IsRefreshJson(fileContent)
     ELSE fileContent = NoNodesJson
  /\ manifest = null
  /\ modelDepths = <<>>
  /\ refreshStatus = "none"
  /\ reported = "none"
  /\ fired = 0
  /\ listenerSaw = <<>>
  /\ repeated = FALSE
  /\ lookup = <<>>
  /\ loop = [phase |-> "idle"]
  /\ pending = noRefreshes
  /\ lastIndex = 0
  /\ decorated = <<>>
  /\ document \in Documents
  /\ hover = noHover
  /\ lastRead = <<>>

NextDecor == RefreshManifest \/ UpdateDecorations \/ ProvideHover

SpecDecor == InitDecor /\ [][NextDecor]_vars

(***************************************************************************)
(* The dependency graph the claims speak of: the participating nodes of    *)
(* the loaded manifest (resource_type 'model') and, for each, the parents  *)
(* of its parent list that are participating nodes themselves.             *)
(***************************************************************************)
Computed == refreshStatus = "ok"

LoadedManifest == manifest[1]

Participants ==
  { n \in Range(LoadedManifest.nodes) : n.resource_type = "model" }

ParticipantIds == { n.id : n \in Participants }

ParentList(id) == LoadedManifest.parent_map[id]

ParticipatingParents(id) == Range(ParentList(id)) \cap ParticipantIds

RECURSIVE AncestorsWithin(_, _)
AncestorsWithin(id, k) ==
  IF k = 0 THEN {}
  ELSE ParticipatingParents(id) \cup
       UNION { AncestorsWithin(p, k - 1) : p \in ParticipatingParents(id) }

Acyclic ==
  \A id \in ParticipantIds : id \notin AncestorsWithin(id, Cardinality(ParticipantIds))

SetMax(S) == CHOOSE x \in S : \A y \in S : y <= x

\* edges of the longest chain of participating ancestors back to a root
RECURSIVE LongestChain(_)
LongestChain(id) ==
  IF ParticipatingParents(id) = {} THEN 0
  ELSE 1 + SetMax({ LongestChain(p) : p \in ParticipatingParents(id) })

NameIsShared(n) == \E o \in Participants : o.id # n.id /\ o.name = n.name

\* C1: after calculateModelDepths on an acyclic manifest, every participating
\* node without a participating parent has depth exactly 1 under its id key
\* and (when no other participant shares its name, see C8) under its name key.
C1_RootsHaveDepthOne ==
  (Computed /\ Acyclic) =>
    \A n \in Participants :
      ParticipatingParents(n.id) = {} =>
        /\ MapGet(modelDepths, n.id) = 1
        /\ ~NameIsShared(n) => MapGet(modelDepths, n.name) = 1

\* C2: on an acyclic manifest the stored depth of every participating node
\* is 1 + the number of edges of its longest chain of participating
\* ancestors back to a root.
C2_DepthIsOnePlusLongestChain ==
  (Computed /\ Acyclic) =>
    \A id \in ParticipantIds : MapGet(modelDepths, id) = 1 + LongestChain(id)

\* C3: on an acyclic manifest every participating node with a participating
\* parent has depth 1 + the maximum of the depths of its participating
\* parents.
C3_DepthIsOnePlusMaxParentDepth ==
  (Computed /\ Acyclic) =>
    \A id \in ParticipantIds :
      ParticipatingParents(id) # {} =>
        MapGet(modelDepths, id) =
          1 + SetMax({ MapGet(modelDepths, p) : p \in ParticipatingParents(id) })

\* C4: on an acyclic manifest the depth of every participating node is the
\* number of edges on the longest path from a root to it.
C4_DepthIsLongestPathEdges ==
  (Computed /\ Acyclic) =>
    \A id \in ParticipantIds : MapGet(modelDepths, id) = LongestChain(id)

\* the loaded manifest with every parent entry that is no participating node
\* removed from parent_map
WithoutNonParticipantParents ==
  [LoadedManifest EXCEPT !.parent_map =
     [id \in DOMAIN @ |-> SelectSeq(@[id], LAMBDA p : p \in ParticipantIds)]]

\* C5: a parent that is no participating node never counts: every
\* participating node has the depth it has with those parent entries removed
\* from parent_map, and depth 1 when all its parents are of that kind.
C5_NonParticipantParentsDoNotCount ==
  Computed =>
    \A id \in ParticipantIds :
      /\ MapGet(modelDepths, id) =
           MapGet(calculateModelDepths(parser, WithoutNonParticipantParents, <<>>), id)
      /\ (ParentList(id) # <<>> /\ ParticipatingParents(id) = {}) =>
           MapGet(modelDepths, id) = 1

\* C6: on an acyclic manifest every participating node has a depth >= 1 in
\* the table; none is left at the sentinel 0.
C6_EveryParticipantHasPositiveDepth ==
  (Computed /\ Acyclic) =>
    \A id \in ParticipantIds : MapGet(modelDepths, id) >= 1

NonParticipants ==
  { n \in Range(LoadedManifest.nodes) : n.resource_type # "model" }

\* C7 as stated: no name and no id of a non-participating node is a key of
\* the table.
C7_NoNonParticipantNameOrIdIsAKey ==
  Computed =>
    \A n \in NonParticipants :
      n.name \notin MapKeys(modelDepths) /\ n.id \notin MapKeys(modelDepths)

\* C7 as amended: every key of the table is the name or the id of a
\* participating node, so the name or id of a non-participating node is a
\* key only when a participating node carries the same string.
C7_EveryKeyBelongsToAParticipant ==
  Computed =>
    \A k \in MapKeys(modelDepths) : \E n \in Participants : k = n.name \/ k = n.id

\* a test node shares its name with a model: the name is a key, the id is not
C7_Witness ==
  /\ Computed
  /\ \E n \in NonParticipants :
       /\ n.name \in MapKeys(modelDepths)
       /\ n.id \notin MapKeys(modelDepths)
       /\ MapGet(modelDepths, n.id) = undefined

PositionOf(n) ==
  CHOOSE i \in 1..Len(LoadedManifest.nodes) : LoadedManifest.nodes[i] = n

\* the participant written last among those named name
LastNamed(name) ==
  CHOOSE n \in Participants :
    /\ n.name = name
    /\ \A o \in Participants : o.name = name => PositionOf(o) <= PositionOf(n)

\* C8: the keys of the table are the names and the ids of the participating
\* nodes, each once (two keys per node when no name is shared); an id key
\* holds its node's computed depth and a name key the computed depth of the
\* node of that name written last.
C8_TwoKeysPerParticipantLastWriteWins ==
  Computed =>
    LET depthOf == computedDepths(parser, LoadedManifest)
    IN  /\ MapKeys(modelDepths) = { n.name : n \in Participants } \cup ParticipantIds
        /\ \A i, j \in 1..Len(modelDepths) :
             modelDepths[i][1] = modelDepths[j][1] => i = j
        /\ (\A n \in Participants : ~NameIsShared(n)) =>
             Len(modelDepths) = 2 * Cardinality(Participants)
        /\ \A n \in Participants :
             /\ MapGet(modelDepths, n.id) = depthOf[n.id]
             /\ MapGet(modelDepths, n.name) = depthOf[LastNamed(n.name).id]

\* two models share a name and differ in depth: the name holds the later one's
C8_Witness ==
  /\ Computed
  /\ \E n, o \in Participants :
       /\ n.name = o.name
       /\ PositionOf(n) < PositionOf(o)
       /\ MapGet(modelDepths, n.id) # MapGet(modelDepths, o.id)
       /\ MapGet(modelDepths, n.name) = MapGet(modelDepths, o.id)

Looked == lookup # <<>>

MatchingKeys(name) ==
  { i \in 1..Len(modelDepths) : endsWith(modelDepths[i][1], name) }

\* C9: getModelDepth(name) returns the value stored under the exact key name
\* whenever that key exists, whatever other keys end with '.' + name.
C9_ExactKeyWins ==
  (Looked /\ MapHas(modelDepths, lookup[1])) =>
    lookup[2] = MapGet(modelDepths, lookup[1])

\* the exact key exists next to a key ending with '.' + name of another depth
C9_Witness ==
  /\ Looked
  /\ MapHas(modelDepths, lookup[1])
  /\ \E i \in MatchingKeys(lookup[1]) : modelDepths[i][2] # lookup[2]
  /\ lookup[2] = MapGet(modelDepths, lookup[1])

\* C10: when name is no key of the table, getModelDepth(name) returns the
\* depth of the first key in insertion order that ends with '.' + name.
C10_FirstSuffixMatchWins ==
  (Looked /\ ~MapHas(modelDepths, lookup[1])) =>
    \A i \in MatchingKeys(lookup[1]) :
      (\A j \in MatchingKeys(lookup[1]) : i <= j) => lookup[2] = modelDepths[i][2]

\* name is no key and two keys of different depths end with '.' + name
C10_Witness ==
  /\ Looked
  /\ ~MapHas(modelDepths, lookup[1])
  /\ \E i, j \in MatchingKeys(lookup[1]) :
       /\ i < j
       /\ modelDepths[i][2] # modelDepths[j][2]
       /\ lookup[2] = modelDepths[i][2]

(***************************************************************************)
(* Lookups that miss, and the empty manifest.                              *)
(***************************************************************************)
\* key is name preceded by at least one segment: key ends with '.' + name
EndsWithDotName(key, name) ==
  \E pre \in 1..(Len(key) - 1) : SubSeq(key, pre + 1, Len(key)) = name

\* the table calculateModelDepths builds for the loaded manifest
TableOfLoadedManifest ==
  IF manifest = null THEN <<>>
  ELSE calculateModelDepths(parser, LoadedManifest, <<>>)

\* C11: getModelDepth(name) for a name that is neither a key of the table
\* nor what follows a '.' at the end of a key returns undefined, and the
\* table is after the call what the computation left.
C11_MissReturnsUndefined ==
  (/\ Looked
   /\ \A i \in 1..Len(modelDepths) :
        /\ modelDepths[i][1] # lookup[1]
        /\ ~EndsWithDotName(modelDepths[i][1], lookup[1])) =>
    /\ lookup[2] = undefined
    /\ modelDepths = TableOfLoadedManifest

\* a name was looked up in a table that has keys, none of them matching
C11_Witness ==
  /\ Looked
  /\ modelDepths # <<>>
  /\ \A i \in 1..Len(modelDepths) :
       /\ modelDepths[i][1] # lookup[1]
       /\ ~EndsWithDotName(modelDepths[i][1], lookup[1])
  /\ lookup[2] = undefined

\* C12: calculateModelDepths on a manifest whose node collection is empty
\* does not fail and leaves an empty table, and getModelDepth of any name
\* then returns undefined.
C12_EmptyNodesEmptyTable ==
  (manifest # null /\ LoadedManifest.nodes = <<>>) =>
    /\ refreshStatus = "ok"
    /\ modelDepths = <<>>
    /\ Looked => lookup[2] = undefined

\* a name was looked up after the refresh of a manifest without nodes
C12_Witness ==
  /\ manifest # null
  /\ LoadedManifest.nodes = <<>>
  /\ refreshStatus = "ok"
  /\ Looked
  /\ lookup[2] = undefined
(***************************************************************************)
(* Refreshes: recomputation, failures and the manifest-updated event.      *)
(***************************************************************************)
\* C13: recomputing from an unchanged manifest yields an identical table:
\* after a successful refresh, calculateModelDepths run again on the table
\* gives that table back entry for entry, and the table holds nothing but
\* what a run on an empty table stores for the manifest.
C13_RecomputationIsIdempotent ==
  Computed =>
    /\ calculateModelDepths(parser, LoadedManifest, modelDepths) = modelDepths
    /\ modelDepths = TableOfLoadedManifest

\* the last two refreshes succeeded on the same content of manifest.json
C13_Witness ==
  /\ repeated
  /\ Computed
  /\ modelDepths # <<>>
  /\ modelDepths = TableOfLoadedManifest

\* C14: a refreshManifest call that fails after the manifest file was
\* located (reading, parsing or computing throws) leaves the depth table as
\* it was before the call.
C14_FailedRefreshKeepsTable ==
  [][refreshStatus' = "failed" => modelDepths' = modelDepths]_vars

\* C15: when the content of the manifest file is not parseable JSON,
\* refreshManifest ends as a failed refresh: the SyntaxError is caught and
\* reported, no event is fired, and the stored manifest and the depth table
\* are what they were before the call.
C15_MalformedJsonKeepsManifestAndTable ==
  [][(fileKind = "malformed" /\ UNCHANGED <<fileKind, fileContent>>) =>
       /\ refreshStatus' = "failed"
       /\ reported' = "SyntaxError"
       /\ fired' = 0
       /\ manifest' = manifest
       /\ modelDepths' = modelDepths]_vars

\* a refresh met malformed JSON after a successful one: the table of the
\* manifest loaded before is still served
C15_Witness ==
  /\ fileKind = "malformed"
  /\ reported = "SyntaxError"
  /\ manifest # null
  /\ modelDepths # <<>>
  /\ modelDepths = TableOfLoadedManifest

\* C16: no reader observes a partially rebuilt table: whenever the table
\* changes between two points where a lookup can run, it becomes the
\* complete result of a successful computation on the loaded manifest.
C16_TableChangesOnlyToACompleteResult ==
  [][modelDepths' # modelDepths =>
       /\ refreshStatus' = "ok"
       /\ modelDepths' = calculateModelDepths(parser, manifest'[1], <<>>)]_vars

C18_MissingParentDataNeverAborts ==
  manifest # null =>
    /\ refreshStatus = "ok"
    /\ ~LoadedManifest.has_parent_map =>
         \A n \in Participants : MapGet(modelDepths, n.id) = 1

\* C19: the number displayed for a reference to a participating node (by a
\* name no other node shares) of an acyclic manifest is 1 + the number of
\* edges of its longest chain of participating ancestors.
C19_DisplayedNumberIsOnePlusLongestChain ==
  (Computed /\ Acyclic) =>
    \A n \in Participants :
      ~NameIsShared(n) =>
        adjustedDepth(getModelDepth(modelDepths, n.name)) = 1 + LongestChain(n.id)

OnCycle(id) == id \in AncestorsWithin(id, Cardinality(ParticipantIds))

\* the parents calculateModelDepths retains: those starting with 'model.'
RetainedParents(id) == { p \in Range(ParentList(id)) : p[1] = "model" }

\* the participating nodes that the queue of part_002 gets to: those whose
\* retained parents all get there
RECURSIVE DequeuedWithin(_)
DequeuedWithin(k) ==
  IF k = 0 THEN {}
  ELSE LET sooner == DequeuedWithin(k - 1)
       IN  { id \in ParticipantIds : RetainedParents(id) \subseteq sooner }

Dequeued == DequeuedWithin(Cardinality(ParticipantIds))

\* the ids within k retained-parent edges of id, id included
RECURSIVE ReachedWithin(_, _)
ReachedWithin(id, k) ==
  IF k = 0 THEN {id}
  ELSE LET nearer == ReachedWithin(id, k - 1)
       IN  nearer \cup UNION { RetainedParents(q) : q \in nearer \cap ParticipantIds }

\* the number of edges of the shortest path from id to its farthest ancestor
FarthestAncestor(id) ==
  LET n == Cardinality(ParticipantIds)
  IN  SetMax({ k \in 0..n :
                 k = 0 \/ ReachedWithin(id, k) # ReachedWithin(id, k - 1) })

\* C20 as stated: on input with a cycle among participating nodes no error
\* is raised and every node on a cycle is left with depth 0.
C20_CycleNodesKeepDepthZero ==
  (manifest # null /\ LoadedManifest.has_parent_map) =>
    \A id \in ParticipantIds :
      OnCycle(id) => (Computed /\ MapGet(modelDepths, id) = 0)

\* C20: on input with a cycle among participating nodes no error is raised;
\* part_002 never dequeues a node on a cycle and leaves it with depth 0
\* unless a parent of it was dequeued, and then with 1 + the largest depth
\* of its dequeued parents; manifestParser.ts gives it the number of edges
\* of the shortest path to its farthest ancestor.
C20_CycleNodesAreNeverDequeued ==
  (manifest # null /\ LoadedManifest.has_parent_map) =>
    \A id \in ParticipantIds :
      OnCycle(id) =>
        /\ Computed
        /\ parser = "topological" =>
             /\ id \notin Dequeued
             /\ MapGet(modelDepths, id) =
                  IF RetainedParents(id) \cap Dequeued = {} THEN 0
                  ELSE 1 + SetMax({ MapGet(modelDepths, p) :
                                      p \in RetainedParents(id) \cap Dequeued })
        /\ parser = "bfs" => MapGet(modelDepths, id) = FarthestAncestor(id)

\* a node on a cycle that also has a dequeued parent holds a positive depth
C20_Witness ==
  /\ Computed
  /\ parser = "topological"
  /\ \E id \in ParticipantIds :
       /\ OnCycle(id)
       /\ RetainedParents(id) \cap Dequeued # {}
       /\ MapGet(modelDepths, id) > 0
(***************************************************************************)
(* Refreshes that find no file or fail.                                    *)
(***************************************************************************)
\* C30: a refreshManifest call that finds no manifest file, or that fails,
\* leaves the depth table and the stored manifest unchanged and fires no
\* manifest-updated event.
C30_NoFileOrFailureChangesNothing ==
  [][(refreshStatus' \in {"notfound", "failed"}
      /\ UNCHANGED <<fileKind, fileContent>>) =>
       /\ modelDepths' = modelDepths
       /\ manifest' = manifest
       /\ fired' = 0]_vars
(***************************************************************************)
(* The unit tests' copies of the computation.                              *)
(***************************************************************************)
\* C25: the calculateModelDepths copies of the unit tests and
\* DbtManifestParser.calculateModelDepths compute the same table for every
\* manifest, multi-path graphs and a missing parent_map included.
C25_TestCopiesComputeTheParsersTable ==
  manifest # null =>
    /\ modelDepths = calculateModelDepthsIsolated(LoadedManifest)
    /\ LoadedManifest.has_parent_map =>
         modelDepths = calculateModelDepthsTestCopy(LoadedManifest)
(***************************************************************************)
(* Orderings of the input.                                                 *)
(***************************************************************************)
\* the sequences with the elements of s in another order
Reordered(s) ==
  { [i \in 1..Len(s) |-> s[f[i]]] : f \in Permutations(1..Len(s)) }

\* the manifests with the node records of m and the ids of each parent list
\* of m in another order
Reorderings(m) ==
  { [m EXCEPT !.nodes = ns, !.parent_map = pm] :
      ns \in Reordered(m.nodes),
      pm \in { f \in [DOMAIN m.parent_map ->
                       UNION { Reordered(m.parent_map[id]) : id \in DOMAIN m.parent_map }] :
                 \A id \in DOMAIN m.parent_map : f[id] \in Reordered(m.parent_map[id]) } }

\* C24: for an acyclic manifest, every ordering of the node records and of
\* the ids inside each parent list gives the same keys and the same depth
\* under every id key, and under every name that only one node has.
C24_DepthIsIndependentOfInputOrder ==
  (Computed /\ Acyclic) =>
    \A r \in Reorderings(LoadedManifest) :
      LET t == calculateModelDepths(parser, r, <<>>)
      IN  /\ MapKeys(t) = MapKeys(modelDepths)
          /\ \A n \in Participants :
               /\ MapGet(t, n.id) = MapGet(modelDepths, n.id)
               /\ ~NameIsShared(n) => MapGet(t, n.name) = MapGet(modelDepths, n.name)

\* three nodes, one of them with two participating parents of different
\* depths in its parent list
C24_Witness ==
  /\ Computed
  /\ Acyclic
  /\ Cardinality(ParticipantIds) = 3
  /\ \E n \in Participants :
       \E p, q \in ParticipatingParents(n.id) :
         /\ MapGet(modelDepths, p) < MapGet(modelDepths, q)
         /\ MapGet(modelDepths, q) < MapGet(modelDepths, n.id)
(***************************************************************************)
(* The loops of calculateModelDepths.                                      *)
(***************************************************************************)
LoopDone == loop.phase = "done"

\* the stepwise computation ends with the table of calculateModelDepths
LoopAgreesWithCalculateModelDepths ==
  LoopDone => modelDepths = calculateModelDepths(parser, LoadedManifest, <<>>)

\* the while loop of part_002 is running or has just been left
InWorkQueueLoop == parser = "topological" /\ loop.phase \in {"loop", "stored"}

LoopLeft == parser = "topological" /\ loop.phase = "stored"

Occurrences(seq, x) == Cardinality({ i \in 1..Len(seq) : seq[i] = x })

\* the retained parent entries of id, duplicates kept
RetainedParentList(id) == SelectSeq(ParentList(id), LAMBDA p : p[1] = "model")

\* C22: on a true DAG the work-queue loop dequeues every participating node
\* exactly once before it terminates, and at termination every inDegree
\* counter is 0.
C22_EveryParticipantDequeuedOnce ==
  (LoopLeft /\ Acyclic) =>
    \A id \in ParticipantIds :
      /\ Occurrences(loop.dequeued, id) = 1
      /\ loop.inDegree[id] = 0

\* C23: a node is in the queue only after each of its retained parents was
\* dequeued and has applied depth[child] = max(depth[child], depth[parent]
\* + 1) for every entry, and the depth of a node never changes after it was
\* enqueued.
C23_EnqueuedAfterEveryParentContributed ==
  /\ [](InWorkQueueLoop =>
         \A id \in Range(loop.enqueued) :
           /\ id \notin Range(loop.children)
           /\ \A p \in RetainedParents(id) :
                /\ p \in Range(loop.dequeued)
                /\ loop.depths[id] >= loop.depths[p] + 1
           /\ loop.depths[id] =
                IF RetainedParents(id) = {} THEN 1
                ELSE 1 + SetMax({ loop.depths[p] : p \in RetainedParents(id) }))
  /\ [][(InWorkQueueLoop /\ InWorkQueueLoop') =>
          \A id \in Range(loop.enqueued) : loop'.depths[id] = loop.depths[id]]_vars

\* the loop was left after a node with two different retained parents was
\* enqueued and dequeued
C23_Witness ==
  /\ LoopLeft
  /\ \E id \in Range(loop.dequeued) : Cardinality(RetainedParents(id)) = 2

\* C26: calculateModelDepths terminates on every manifest, cycles,
\* self-loops and duplicated parent ids included: the computation returns,
\* and the table then has the name and the id of every participant as keys.
C26_CalculateModelDepthsTerminates ==
  <>(/\ LoopDone
     /\ \A n \in Participants :
          MapHas(modelDepths, n.id) /\ MapHas(modelDepths, n.name))

\* the computation has returned on a manifest with a cycle and a duplicated
\* parent id
C26_Witness ==
  /\ LoopDone
  /\ \E id \in ParticipantIds : OnCycle(id)
  /\ \E id \in ParticipantIds :
       \E i, j \in 1..Len(ParentList(id)) :
         i # j /\ ParentList(id)[i] = ParentList(id)[j]

\* C27: in every state of the work-queue loop, for any input, each
\* participant has been enqueued at most once, every inDegree counter is
\* >= 0 and is the number of that node's retained parent entries not yet
\* processed, and the children of the dequeued node and the node to dequeue
\* are keys of depths and inDegree.
C27_LoopInvariant ==
  InWorkQueueLoop =>
    /\ \A id \in ParticipantIds :
         /\ Occurrences(loop.enqueued, id) <= 1
         /\ Occurrences(loop.dequeued, id) <= 1
         /\ loop.inDegree[id] >= 0
         /\ loop.inDegree[id] =
              Cardinality({ i \in 1..Len(RetainedParentList(id)) :
                              RetainedParentList(id)[i] \notin Range(loop.dequeued) })
              + Occurrences(loop.children, id)
    /\ Range(loop.children) \subseteq DOMAIN loop.depths
    /\ Range(loop.children) \subseteq DOMAIN loop.inDegree
    /\ Range(loop.queue) \subseteq DOMAIN loop.depths
    /\ DOMAIN loop.depths = ParticipantIds
    /\ DOMAIN loop.inDegree = ParticipantIds

\* the loop is about to process a child that lies on a cycle: a dequeued
\* parent of it contributes, and its inDegree stays above 0
C27_Witness ==
  /\ InWorkQueueLoop
  /\ loop.children # <<>>
  /\ OnCycle(Head(loop.children))
  /\ loop.inDegree[Head(loop.children)] > 1
(***************************************************************************)
(* The decorations of the visible editor.                                  *)
(***************************************************************************)
\* the ref() occurrences of a text
RefOccurrences(text) == { i \in 1..Len(text) : IsRef(text[i]) }

\* the name an occurrence refers to
ReferencedName(text, i) == text[i][2]

\* an occurrence carries an annotation in a list of decorations
Annotated(decorations, i) ==
  \E k \in 1..Len(decorations) : decorations[k][1] = i

\* the annotations of every occurrence of the text whose model has a depth
\* in the table, from the start of the text
AnnotationsFromTheStart(text, table) ==
  LET shown(i) == /\ IsRef(text[i])
                  /\ getModelDepth(table, ReferencedName(text, i)) # undefined
      kept == SelectSeq([i \in 1..Len(text) |-> i], shown)
  IN [k \in 1..Len(kept) |->
        <<kept[k],
          adjustedDepth(getModelDepth(table, ReferencedName(text, kept[k])))>>]

\* a step in which updateDecorations ran on the editor: called by a handler
\* of extension.ts or by the provider's listener during a refresh's event
UpdateDecorationsRan ==
  /\ isDbtFile(document)
  /\ UpdateDecorations \/ (RefreshManifest /\ fired' = 1)

\* C28: whatever hovers and updateDecorations calls came before, every
\* updateDecorations call annotates every ref() occurrence of the document
\* whose model has a depth, from the start of the text: the lastIndex that
\* REF_PATTERN keeps between calls never makes it skip an occurrence
C28_UpdateDecorationsScansFromTheStart ==
  [][UpdateDecorationsRan
       => decorated' = AnnotationsFromTheStart(document.text, modelDepths')]_vars

\* C21: updateDecorations annotates a ref() occurrence if and only if
\* getModelDepth of the referenced name returns a depth; a miss produces no
\* annotation for that occurrence and does not keep the other occurrences
\* from being annotated
C21_AnnotatedIffDepthFound ==
  [][UpdateDecorationsRan
       => \A i \in RefOccurrences(document.text) :
            Annotated(decorated', i)
              <=> getModelDepth(modelDepths',
                                ReferencedName(document.text, i)) # undefined]_vars

(***************************************************************************)
(* Refreshes in flight together.                                           *)
(***************************************************************************)
\* every refresh that was started has completed
Quiescent == InFlight = 0

\* the manifest content read by the refresh that read last
ContentReadLast == lastRead[1]

\* the table a computation on that content builds from nothing
DepthsOfContentReadLast == calculateModelDepths(parser, ContentReadLast, <<>>)

\* C29: however concurrently triggered refreshes interleave, the part of
\* each after its path is found runs in one piece, so once all refreshes in
\* flight have completed the table equals the depths computed from the
\* manifest content read by the refresh that read last, and a notification
\* is fired with the table of its own refresh
C29_TableIsOfTheContentReadLast ==
  /\ Quiescent /\ lastRead # <<>>
       => /\ ~calculateThrows(ContentReadLast)
          /\ modelDepths = DepthsOfContentReadLast
  /\ fired = 1
       => /\ lastRead # <<>>
          /\ ~calculateThrows(ContentReadLast)
          /\ listenerSaw = DepthsOfContentReadLast

====
